---- MODULE Spec2Model ----
(***************************************************************************)
(* Model of the dashboard's credential and chat-session lifecycle          *)
(* (src/src/app/dashboard/page.tsx).                                       *)
(*                                                                         *)
(* One step of the model is one run of JavaScript between two suspension   *)
(* points: a task of the event loop (the mount effect, a timer callback,   *)
(* a click handler, the arrival of a network response) or a promise        *)
(* continuation (a microtask).  Microtasks run before the next task, so    *)
(* every task action is guarded by ~MicroPending.                          *)
(***************************************************************************)
EXTENDS Integers, Sequences, FiniteSets, TLC

\* ---------------------------------------------------------------- bounds
StartTime == 1000      \* unix seconds at the first mount
MaxTicks == 2          \* timer callbacks modelled
MaxIssued == 2         \* token pairs the refresh endpoint may issue
MaxExp == 400          \* largest exp of the expiry-evaluator specification
MaxNow == 100          \* largest clock of the expiry-evaluator specification

\* ------------------------------------------------------------- constants
TOKEN_REFRESH_THRESHOLD == 5 * 60
TimerPeriod == 60

\* ---------------------------------------------------------------- values
\* localStorage.getItem gives null for a missing key.
NoToken == [id |-> 0, kind |-> "null", exp |-> 0]
NoRefresh == 0
NoChat == "<null>"
\* A response body without the field: JavaScript's undefined.
Undefined == "<undefined>"
NoField == [id |-> 0, kind |-> "undefined", exp |-> 0]

ChatIds == {"c1", "c2"}
Histories == {<<>>, <<"m1">>}
SessionLists == {<<>>, <<"c1">>}

\* An access token is a JWT string; what the code reads of it is whether it
\* decodes ("bad" does not), and the exp claim of its payload when present.
AccessToken(i, k, e) == [id |-> i, kind |-> k, exp |-> e]

VARIABLES
  token, refresh_token, active_chat_id,       \* localStorage
  loading, chatId, initialMessages, sessions, \* React state
  route, mounted, reloadPending,              \* router / page
  now, ticks, issued,                         \* clock, timer count, backend counter
  pc, tk, rtSent, acid,                       \* initialize() and its locals
  upc, utk, usel, uacid,                      \* click handler and its locals
  timerReqs,                                  \* refreshTokens() calls of the timer
  ev                                          \* what the last step did

storeVars == <<token, refresh_token, active_chat_id>>
reactVars == <<loading, chatId, initialMessages, sessions>>
pageVars == <<route, mounted, reloadPending>>
clockVars == <<now, ticks, issued>>
initVars == <<pc, tk, rtSent, acid>>
userVars == <<upc, utk, usel, uacid>>
vars == <<storeVars, reactVars, pageVars, clockVars, initVars, userVars, timerReqs, ev>>

\* --------------------------------------------------------- TokenManager
\* hasValidTokens that looks at the access token alone.
hasValidTokensAccessOnly == token # NoToken

hasValidTokens == token # NoToken /\ refresh_token # NoRefresh

setTokens(accessToken, refreshToken) ==
  /\ token' = accessToken
  /\ refresh_token' = refreshToken

\* clearTokens that forgets the chat id.
clearTokensKeepsChat ==
  /\ token' = NoToken
  /\ refresh_token' = NoRefresh
  /\ UNCHANGED active_chat_id

\* clearTokens that forgets the refresh token.
clearTokensKeepsRefresh ==
  /\ token' = NoToken
  /\ UNCHANGED refresh_token
  /\ active_chat_id' = NoChat

clearTokens ==
  /\ token' = NoToken
  /\ refresh_token' = NoRefresh
  /\ active_chat_id' = NoChat

\* ------------------------------------------------------ expiry evaluator
\* jwtDecode: throws on an undecodable token, else the payload.
jwtDecodeThrows(t) == t.kind = "bad"
jwtDecode(t) == [hasExp |-> t.kind = "exp", exp |-> t.exp]

\* !decoded.exp is true for a missing exp and for exp = 0.
isTokenExpiringSoon(t, currentTime) ==
  IF jwtDecodeThrows(t) THEN FALSE
  ELSE IF ~jwtDecode(t).hasExp \/ jwtDecode(t).exp = 0 THEN FALSE
  ELSE jwtDecode(t).exp - currentTime < TOKEN_REFRESH_THRESHOLD

\* ------------------------------------------------------ backend answers
\* What a fetch can end in: a success response with a parsed body ("ok"), a
\* success response whose body does not parse (response.json() throws), a
\* non-success response, or a rejected fetch (transport error).
FailKinds == {"bad_json", "http_error", "net_error"}
\* The backend issues access tokens that live this long.
TokenLifetime == 400
NewExpiries == {now + TokenLifetime}

RefreshResponses ==
  {[kind |-> "ok", at |-> a, rt |-> r] :
     a \in {AccessToken(issued + 1, "exp", e) : e \in NewExpiries} \cup {NoField},
     r \in {issued + 1, NoRefresh}}
  \cup {[kind |-> k, at |-> NoField, rt |-> NoRefresh] : k \in FailKinds}

ChatIdResponses ==
  {[kind |-> "ok", id |-> i] : i \in ChatIds \cup {Undefined}}
  \cup {[kind |-> k, id |-> Undefined] : k \in FailKinds}

HistoryResponses ==
  {[kind |-> "ok", history |-> h] : h \in Histories}
  \cup {[kind |-> k, history |-> <<>>] : k \in FailKinds}

SessionsResponses ==
  {[kind |-> "ok", sessions |-> s] : s \in SessionLists}
  \cup {[kind |-> k, sessions |-> <<>>] : k \in FailKinds}

\* The backend counts the pairs it issued.
Issue(r) == IF r.kind = "ok" /\ (r.at # NoField \/ r.rt # NoRefresh) THEN issued + 1 ELSE issued
CanAnswer(r) == Issue(r) <= 1 + MaxIssued

Ev(op, res, net) == [op |-> op, res |-> res, net |-> net]

\* -------------------------------------------------------- refreshTokens
\* Line 79: the call throws before any request when no refresh token is stored.
refreshTokensThrowsEarly == refresh_token = NoRefresh

\* Lines 89-92: the response is rejected.
refreshRejected(r) == r.kind # "ok" \/ r.at = NoField \/ r.rt = NoRefresh

\* refreshTokens that stores the access token before it validates the pair.
refreshTokensResumeHalf(r) ==
  IF r.kind # "ok"
  THEN UNCHANGED <<token, refresh_token>>
  ELSE /\ token' = IF r.at # NoField THEN r.at ELSE token
       /\ refresh_token' = IF refreshRejected(r) THEN refresh_token ELSE r.rt

\* refreshTokens that returns the pair without storing it.
refreshTokensResumeNoCommit(r) == UNCHANGED <<token, refresh_token>>

\* Lines 89-95, after the awaited fetch: commit the pair or throw.
refreshTokensResume(r) ==
  IF refreshRejected(r)
  THEN UNCHANGED <<token, refresh_token>>
  ELSE setTokens(r.at, r.rt)

\* -------------------------------------------------------- getActiveChatId
\* getActiveChatId that ignores the persisted id.
storedChatIdNeverHit == FALSE

\* Lines 116-117: the cache hit.
storedChatIdHit == active_chat_id # NoChat

\* Line 126: localStorage.setItem stores the string form of its argument.
ToStorageString(v) == IF v = Undefined THEN "undefined" ELSE v

\* Lines 124-131, after the awaited fetch: what is persisted ...
getActiveChatIdPersist(r) ==
  IF r.kind = "ok"
  THEN active_chat_id' = ToStorageString(r.id)
  ELSE UNCHANGED active_chat_id

\* ... and what is returned.
getActiveChatIdReturn(r) == IF r.kind = "ok" THEN r.id ELSE NoChat

\* JavaScript truthiness of a returned chat id.
Truthy(v) == v # NoChat /\ v # Undefined

\* ------------------------------------------------------- fetchChatHistory
\* fetchChatHistory that reloads without dropping the persisted id.
fetchChatHistoryResumeKeepsId(r) ==
  CASE r.kind = "ok" ->
         /\ initialMessages' = r.history
         /\ UNCHANGED <<active_chat_id, reloadPending>>
    [] r.kind = "http_error" ->
         /\ reloadPending' = TRUE
         /\ UNCHANGED <<initialMessages, active_chat_id>>
    [] OTHER -> UNCHANGED <<initialMessages, active_chat_id, reloadPending>>

\* Lines 143-153, after the awaited fetch.
fetchChatHistoryResume(r) ==
  CASE r.kind = "ok" ->
         /\ initialMessages' = r.history
         /\ UNCHANGED <<active_chat_id, reloadPending>>
    [] r.kind = "http_error" ->
         /\ active_chat_id' = NoChat
         /\ reloadPending' = TRUE
         /\ UNCHANGED initialMessages
    [] OTHER -> UNCHANGED <<initialMessages, active_chat_id, reloadPending>>

\* ------------------------------------------------------ fetchChatSessions
\* Lines 161-167, after the awaited fetch.
fetchChatSessionsResume(r) ==
  IF r.kind = "ok" THEN sessions' = r.sessions ELSE UNCHANGED sessions

\* --------------------------------------------------------------- states
InitialTokens ==
  {NoToken} \cup
  {AccessToken(1, "bad", 0), AccessToken(1, "noexp", 0), AccessToken(1, "exp", 0),
   AccessToken(1, "exp", StartTime + 100), AccessToken(1, "exp", StartTime + 300)}

\* The page is loaded: useState initial values (lines 57-60), the store as an
\* earlier session left it.
Init ==
  /\ token \in InitialTokens
  /\ refresh_token \in {NoRefresh, 1}
  /\ active_chat_id \in {NoChat, "c1"}
  /\ loading = TRUE /\ chatId = NoChat /\ initialMessages = <<>> /\ sessions = <<>>
  /\ route = "dashboard" /\ mounted = TRUE /\ reloadPending = FALSE
  /\ now = StartTime /\ ticks = 0 /\ issued = 1
  /\ pc = "mount" /\ tk = NoToken /\ rtSent = NoRefresh /\ acid = NoChat
  /\ upc = "idle" /\ utk = NoToken /\ usel = NoChat /\ uacid = NoChat
  /\ timerReqs = {}
  /\ ev = Ev("load", "none", "none")

\* A promise continuation is queued: it runs before any other task.
MicroPcs == {"rt_ok", "rt_fail", "gvt_done", "sess_done", "gac_done", "hist_done"}
MicroUpcs == {"sel_hist_done", "new_gac_done", "new_sess_done"}
MicroPending ==
  \/ pc \in MicroPcs
  \/ upc \in MicroUpcs
  \/ \E q \in timerReqs : q.st = "rejected"

\* ------------------------------------------------------------ initialize
\* Lines 99-104: getValidToken up to its return or to the awaited refresh.
GetValidToken ==
  /\ pc = "mount" /\ ~MicroPending
  /\ IF ~hasValidTokens
     THEN /\ pc' = "gvt_done" /\ tk' = NoToken /\ UNCHANGED rtSent
          /\ ev' = Ev("getValidToken", "no_pair", "none")
     ELSE IF isTokenExpiringSoon(token, now)
     THEN IF refreshTokensThrowsEarly
          THEN /\ pc' = "rt_fail" /\ UNCHANGED <<tk, rtSent>>
               /\ ev' = Ev("getValidToken", "no_refresh_token", "none")
          ELSE /\ pc' = "rt_wait" /\ rtSent' = refresh_token /\ UNCHANGED tk
               /\ ev' = Ev("getValidToken", "refreshing", "refresh")
     ELSE /\ pc' = "gvt_done" /\ tk' = token /\ UNCHANGED rtSent
          /\ ev' = Ev("getValidToken", "fast_path", "none")
  /\ UNCHANGED <<storeVars, reactVars, pageVars, clockVars, acid, userVars, timerReqs>>

\* Lines 81-95 for the refresh started by getValidToken: the response arrives.
InitRefreshResponse ==
  /\ pc = "rt_wait" /\ ~MicroPending
  /\ \E r \in RefreshResponses :
       /\ CanAnswer(r)
       /\ refreshTokensResume(r)
       /\ issued' = Issue(r)
       /\ IF refreshRejected(r)
          THEN pc' = "rt_fail" /\ UNCHANGED tk
          ELSE pc' = "rt_ok" /\ tk' = r.at
       /\ ev' = Ev("refreshTokens", IF refreshRejected(r) THEN "throws" ELSE "ok", "none")
  /\ UNCHANGED <<active_chat_id, reactVars, pageVars, now, ticks, rtSent, acid,
                 userVars, timerReqs>>

\* Lines 104-105: getValidToken returns the access token refreshTokens gave it.
GetValidTokenReturn ==
  /\ pc = "rt_ok"
  /\ pc' = "gvt_done"
  /\ ev' = Ev("getValidToken", "refreshed", "none")
  /\ UNCHANGED <<storeVars, reactVars, pageVars, clockVars, tk, rtSent, acid,
                 userVars, timerReqs>>

\* Lines 106-108: refreshTokens threw.
GetValidTokenCatch ==
  /\ pc = "rt_fail"
  /\ clearTokens
  /\ pc' = "gvt_done" /\ tk' = NoToken
  /\ ev' = Ev("getValidToken", "refresh_failed", "none")
  /\ UNCHANGED <<reactVars, pageVars, clockVars, rtSent, acid, userVars, timerReqs>>

\* initialize that goes on without a token.
InitAfterTokenNoCheck ==
  /\ pc = "gvt_done"
  /\ pc' = "sess_wait" /\ UNCHANGED <<route, loading>>
  /\ ev' = Ev("initialize", "fetchChatSessions", "sessions")
  /\ rtSent' = NoRefresh
  /\ UNCHANGED <<storeVars, chatId, initialMessages, sessions, mounted, reloadPending,
                 clockVars, tk, acid, userVars, timerReqs>>

\* Lines 202-207 (and 223): no token, or the session-list request.
InitAfterToken ==
  /\ pc = "gvt_done"
  /\ IF tk = NoToken
     THEN /\ route' = "/" /\ loading' = FALSE /\ pc' = "done"
          /\ ev' = Ev("initialize", "unauthenticated", "none")
     ELSE /\ pc' = "sess_wait" /\ UNCHANGED <<route, loading>>
          /\ ev' = Ev("initialize", "fetchChatSessions", "sessions")
  /\ rtSent' = NoRefresh
  /\ UNCHANGED <<storeVars, chatId, initialMessages, sessions, mounted, reloadPending,
                 clockVars, tk, acid, userVars, timerReqs>>

\* Lines 161-167: the session-list response arrives.
InitSessionsResponse ==
  /\ pc = "sess_wait" /\ ~MicroPending
  /\ \E r \in SessionsResponses :
       /\ fetchChatSessionsResume(r)
       /\ ev' = Ev("fetchChatSessions", r.kind, "none")
  /\ pc' = "sess_done"
  /\ UNCHANGED <<storeVars, loading, chatId, initialMessages, pageVars, clockVars,
                 tk, rtSent, acid, userVars, timerReqs>>

\* Lines 209, 116-123: getActiveChatId up to its return or the awaited request.
InitGetActiveChatId ==
  /\ pc = "sess_done"
  /\ IF storedChatIdHit
     THEN /\ pc' = "gac_done" /\ acid' = active_chat_id
          /\ ev' = Ev("getActiveChatId", "hit", "none")
     ELSE /\ pc' = "chat_wait" /\ UNCHANGED acid
          /\ ev' = Ev("getActiveChatId", "miss", "alloc")
  /\ UNCHANGED <<storeVars, reactVars, pageVars, clockVars, tk, rtSent, userVars, timerReqs>>

\* Lines 124-131: the allocation response arrives.
InitChatIdResponse ==
  /\ pc = "chat_wait" /\ ~MicroPending
  /\ \E r \in ChatIdResponses :
       /\ getActiveChatIdPersist(r)
       /\ acid' = getActiveChatIdReturn(r)
       /\ ev' = Ev("getActiveChatId", r.kind, "none")
  /\ pc' = "gac_done"
  /\ UNCHANGED <<token, refresh_token, reactVars, pageVars, clockVars, tk, rtSent,
                 userVars, timerReqs>>

\* Lines 210-217 (and 223): no chat id, or the history request.
InitAfterChatId ==
  /\ pc = "gac_done"
  /\ IF ~Truthy(acid)
     THEN /\ loading' = FALSE /\ pc' = "done" /\ UNCHANGED chatId
          /\ tk' = NoToken /\ acid' = NoChat
          /\ ev' = Ev("initialize", "no_chat_id", "none")
     ELSE /\ chatId' = acid /\ pc' = "hist_wait" /\ UNCHANGED <<loading, tk, acid>>
          /\ ev' = Ev("initialize", "fetchChatHistory", "history")
  /\ UNCHANGED <<storeVars, initialMessages, sessions, pageVars, clockVars, rtSent,
                 userVars, timerReqs>>

\* Lines 143-153: the history response arrives.
InitHistoryResponse ==
  /\ pc = "hist_wait" /\ ~MicroPending
  /\ \E r \in HistoryResponses :
       /\ fetchChatHistoryResume(r)
       /\ ev' = Ev("fetchChatHistory", r.kind, "none")
  /\ pc' = "hist_done"
  /\ UNCHANGED <<token, refresh_token, loading, chatId, sessions, route, mounted,
                 clockVars, tk, rtSent, acid, userVars, timerReqs>>

\* initialize without the finally block.
InitFinallyKeepsLoading ==
  /\ pc = "hist_done"
  /\ pc' = "done"
  /\ tk' = NoToken /\ acid' = NoChat
  /\ ev' = Ev("initialize", "finished", "none")
  /\ UNCHANGED <<storeVars, reactVars, pageVars, clockVars, rtSent, userVars, timerReqs>>

\* Line 223: finally.
InitFinally ==
  /\ pc = "hist_done"
  /\ loading' = FALSE /\ pc' = "done"
  /\ tk' = NoToken /\ acid' = NoChat
  /\ ev' = Ev("initialize", "finished", "none")
  /\ UNCHANGED <<storeVars, chatId, initialMessages, sessions, pageVars, clockVars,
                 rtSent, userVars, timerReqs>>

\* ------------------------------------------------------- refreshInterval
\* A timer callback that starts no refresh while another one is in flight.
TimerTickExclusive ==
  /\ mounted /\ pc # "mount" /\ ticks < MaxTicks /\ ~MicroPending
  /\ now' = now + TimerPeriod /\ ticks' = ticks + 1
  /\ IF /\ token # NoToken /\ isTokenExpiringSoon(token, now')
        /\ pc # "rt_wait" /\ timerReqs = {}
     THEN IF refreshTokensThrowsEarly
          THEN /\ timerReqs' = timerReqs \cup {[n |-> ticks', rt |-> NoRefresh, st |-> "rejected"]}
               /\ ev' = Ev("refreshInterval", "no_refresh_token", "none")
          ELSE /\ timerReqs' = timerReqs \cup {[n |-> ticks', rt |-> refresh_token, st |-> "flight"]}
               /\ ev' = Ev("refreshInterval", "refreshing", "refresh")
     ELSE /\ UNCHANGED timerReqs
          /\ ev' = Ev("refreshInterval", "idle", "none")
  /\ UNCHANGED <<storeVars, reactVars, pageVars, issued, initVars, userVars>>

\* Lines 230-237 and 78-87: the timer callback, one period after the last.  The
\* effect sets the interval after it has called initialize (line 227).
TimerTick ==
  /\ mounted /\ pc # "mount" /\ ticks < MaxTicks /\ ~MicroPending
  /\ now' = now + TimerPeriod /\ ticks' = ticks + 1
  /\ IF token # NoToken /\ isTokenExpiringSoon(token, now')
     THEN IF refreshTokensThrowsEarly
          THEN /\ timerReqs' = timerReqs \cup {[n |-> ticks', rt |-> NoRefresh, st |-> "rejected"]}
               /\ ev' = Ev("refreshInterval", "no_refresh_token", "none")
          ELSE /\ timerReqs' = timerReqs \cup {[n |-> ticks', rt |-> refresh_token, st |-> "flight"]}
               /\ ev' = Ev("refreshInterval", "refreshing", "refresh")
     ELSE /\ UNCHANGED timerReqs
          /\ ev' = Ev("refreshInterval", "idle", "none")
  /\ UNCHANGED <<storeVars, reactVars, pageVars, issued, initVars, userVars>>

\* Lines 89-95 for a refresh started by the timer: the response arrives.
TimerRefreshResponse ==
  /\ ~MicroPending
  /\ \E q \in timerReqs, r \in RefreshResponses :
       /\ q.st = "flight"
       /\ CanAnswer(r)
       /\ refreshTokensResume(r)
       /\ issued' = Issue(r)
       /\ timerReqs' = (timerReqs \ {q}) \cup
                       (IF refreshRejected(r) THEN {[q EXCEPT !.st = "rejected"]} ELSE {})
       /\ ev' = Ev("refreshTokens", IF refreshRejected(r) THEN "throws" ELSE "ok", "none")
  /\ UNCHANGED <<active_chat_id, reactVars, pageVars, now, ticks, initVars, userVars>>

\* Lines 233-236: the catch handler of the timer's refresh.
TimerCatch ==
  /\ \E q \in timerReqs :
       /\ q.st = "rejected"
       /\ timerReqs' = timerReqs \ {q}
  /\ clearTokens
  /\ route' = "/"
  /\ ev' = Ev("refreshInterval", "refresh_failed", "none")
  /\ UNCHANGED <<reactVars, mounted, reloadPending, clockVars, initVars, userVars>>

\* Line 240: the navigation unmounts the dashboard, which clears the interval.
Unmount ==
  /\ mounted /\ route = "/" /\ ~MicroPending
  /\ mounted' = FALSE
  /\ ev' = Ev("unmount", "none", "none")
  /\ UNCHANGED <<storeVars, reactVars, route, reloadPending, clockVars, initVars,
                 userVars, timerReqs>>

\* ------------------------------------------------------ handleSelectChat
\* The assistant, and with it the two callbacks, is rendered only when not
\* loading (lines 244-258).
Rendered == mounted /\ ~loading

\* handleSelectChat without the comparison with the current chat id.
selectChatProceedsAlways(selectedChatId) == token # NoToken

\* Line 172.
selectChatProceeds(selectedChatId) == token # NoToken /\ selectedChatId # chatId

\* Lines 171-176, up to the awaited history request.
HandleSelectChat(selectedChatId) ==
  /\ Rendered /\ ~MicroPending
  /\ IF selectChatProceeds(selectedChatId)
     THEN /\ loading' = TRUE
          /\ active_chat_id' = selectedChatId
          /\ chatId' = selectedChatId
          /\ upc' = "sel_hist_wait" /\ utk' = token /\ usel' = selectedChatId
          /\ ev' = Ev("handleSelectChat", selectedChatId, "history")
     ELSE /\ UNCHANGED <<loading, active_chat_id, chatId, upc, utk, usel>>
          /\ ev' = Ev("handleSelectChat", selectedChatId, "none")
  /\ UNCHANGED <<token, refresh_token, initialMessages, sessions, pageVars, clockVars,
                 initVars, uacid, timerReqs>>

\* Lines 143-153: the history response arrives.
SelectHistoryResponse ==
  /\ upc = "sel_hist_wait" /\ ~MicroPending
  /\ \E r \in HistoryResponses :
       /\ fetchChatHistoryResume(r)
       /\ ev' = Ev("fetchChatHistory", r.kind, "none")
  /\ upc' = "sel_hist_done"
  /\ UNCHANGED <<token, refresh_token, loading, chatId, sessions, route, mounted,
                 clockVars, initVars, utk, usel, uacid, timerReqs>>

\* Line 177.
SelectFinish ==
  /\ upc = "sel_hist_done"
  /\ loading' = FALSE /\ upc' = "idle"
  /\ utk' = NoToken /\ usel' = NoChat
  /\ ev' = Ev("handleSelectChat", "finished", "none")
  /\ UNCHANGED <<storeVars, chatId, initialMessages, sessions, pageVars, clockVars,
                 initVars, uacid, timerReqs>>

\* --------------------------------------------------- handleCreateNewChat
\* Lines 182-187 and 116-123, up to the awaited allocation request: the stored
\* id was just removed, so getActiveChatId always misses here.
HandleCreateNewChat ==
  /\ Rendered /\ ~MicroPending
  /\ IF token # NoToken
     THEN /\ loading' = TRUE
          /\ active_chat_id' = NoChat
          /\ upc' = "new_chat_wait" /\ utk' = token
          /\ ev' = Ev("handleCreateNewChat", "allocating", "alloc")
     ELSE /\ UNCHANGED <<loading, active_chat_id, upc, utk>>
          /\ ev' = Ev("handleCreateNewChat", "no_token", "none")
  /\ UNCHANGED <<token, refresh_token, chatId, initialMessages, sessions, pageVars,
                 clockVars, initVars, usel, uacid, timerReqs>>

\* Lines 124-131: the allocation response arrives.
NewChatIdResponse ==
  /\ upc = "new_chat_wait" /\ ~MicroPending
  /\ \E r \in ChatIdResponses :
       /\ getActiveChatIdPersist(r)
       /\ uacid' = getActiveChatIdReturn(r)
       /\ ev' = Ev("getActiveChatId", r.kind, "none")
  /\ upc' = "new_gac_done"
  /\ UNCHANGED <<token, refresh_token, reactVars, pageVars, clockVars, initVars,
                 utk, usel, timerReqs>>

\* handleCreateNewChat that keeps the old chat's messages.
NewChatAfterChatIdKeepsHistory ==
  /\ upc = "new_gac_done"
  /\ IF Truthy(uacid)
     THEN /\ chatId' = uacid /\ UNCHANGED initialMessages
          /\ upc' = "new_sess_wait" /\ UNCHANGED <<loading, utk, uacid>>
          /\ ev' = Ev("handleCreateNewChat", "fetchChatSessions", "sessions")
     ELSE /\ loading' = FALSE /\ upc' = "idle"
          /\ utk' = NoToken /\ uacid' = NoChat
          /\ UNCHANGED <<chatId, initialMessages>>
          /\ ev' = Ev("handleCreateNewChat", "no_chat_id", "none")
  /\ UNCHANGED <<storeVars, sessions, pageVars, clockVars, initVars, usel, timerReqs>>

\* Lines 188-193.
NewChatAfterChatId ==
  /\ upc = "new_gac_done"
  /\ IF Truthy(uacid)
     THEN /\ chatId' = uacid /\ initialMessages' = <<>>
          /\ upc' = "new_sess_wait" /\ UNCHANGED <<loading, utk, uacid>>
          /\ ev' = Ev("handleCreateNewChat", "fetchChatSessions", "sessions")
     ELSE /\ loading' = FALSE /\ upc' = "idle"
          /\ utk' = NoToken /\ uacid' = NoChat
          /\ UNCHANGED <<chatId, initialMessages>>
          /\ ev' = Ev("handleCreateNewChat", "no_chat_id", "none")
  /\ UNCHANGED <<storeVars, sessions, pageVars, clockVars, initVars, usel, timerReqs>>

\* Lines 161-167: the session-list response arrives.
NewChatSessionsResponse ==
  /\ upc = "new_sess_wait" /\ ~MicroPending
  /\ \E r \in SessionsResponses :
       /\ fetchChatSessionsResume(r)
       /\ ev' = Ev("fetchChatSessions", r.kind, "none")
  /\ upc' = "new_sess_done"
  /\ UNCHANGED <<storeVars, loading, chatId, initialMessages, pageVars, clockVars,
                 initVars, utk, usel, uacid, timerReqs>>

\* Line 193.
NewChatFinish ==
  /\ upc = "new_sess_done"
  /\ loading' = FALSE /\ upc' = "idle"
  /\ utk' = NoToken /\ uacid' = NoChat
  /\ ev' = Ev("handleCreateNewChat", "finished", "none")
  /\ UNCHANGED <<storeVars, chatId, initialMessages, sessions, pageVars, clockVars,
                 initVars, usel, timerReqs>>

\* ------------------------------------------------------------ page reload
\* Line 149: window.location.reload() loads the current URL anew.  The store
\* survives; the script's state, its timer and its pending requests do not.
PageReload ==
  /\ reloadPending /\ ~MicroPending
  /\ reloadPending' = FALSE
  /\ loading' = TRUE /\ chatId' = NoChat /\ initialMessages' = <<>> /\ sessions' = <<>>
  /\ tk' = NoToken /\ rtSent' = NoRefresh /\ acid' = NoChat
  /\ upc' = "idle" /\ utk' = NoToken /\ usel' = NoChat /\ uacid' = NoChat
  /\ timerReqs' = {}
  /\ IF route = "dashboard"
     THEN mounted' = TRUE /\ pc' = "mount"
     ELSE mounted' = FALSE /\ pc' = "done"
  /\ ev' = Ev("reload", route, "none")
  /\ UNCHANGED <<storeVars, route, clockVars>>

UserClick ==
  \/ \E c \in ChatIds \cup {"undefined"} : HandleSelectChat(c)
  \/ HandleCreateNewChat

Next ==
  \/ GetValidToken
  \/ InitRefreshResponse
  \/ GetValidTokenReturn
  \/ GetValidTokenCatch
  \/ InitAfterToken
  \/ InitSessionsResponse
  \/ InitGetActiveChatId
  \/ InitChatIdResponse
  \/ InitAfterChatId
  \/ InitHistoryResponse
  \/ InitFinally
  \/ TimerTick
  \/ TimerRefreshResponse
  \/ TimerCatch
  \/ Unmount
  \/ UserClick
  \/ SelectHistoryResponse
  \/ SelectFinish
  \/ NewChatIdResponse
  \/ NewChatAfterChatId
  \/ NewChatSessionsResponse
  \/ NewChatFinish
  \/ PageReload

Spec == Init /\ [][Next]_vars

\* The store as a completed login or logout leaves it: both tokens or neither.
InitPaired == Init /\ (token = NoToken <=> refresh_token = NoRefresh)
SpecPaired == InitPaired /\ [][Next]_vars

\* The store as a completed login or logout leaves it: clearTokens removes the
\* chat id together with the tokens.
InitClean == InitPaired /\ (token = NoToken => active_chat_id = NoChat)
SpecClean == InitClean /\ [][Next]_vars

\* Lifecycle state Ready: the dashboard route shows the assistant with a chat
\* id, nothing of initialize or of a handler is running, no reload is under way.
Ready ==
  /\ Rendered /\ route = "dashboard" /\ ~reloadPending
  /\ pc = "done" /\ upc = "idle"
  /\ chatId # NoChat

\* ------------------------------------------- the expiry evaluator alone
BoolStr(b) == IF b THEN "true" ELSE "false"

ExpTokens ==
  {AccessToken(1, "exp", e) : e \in 0..MaxExp}
  \cup {AccessToken(1, "bad", 0), AccessToken(1, "noexp", 0)}

ExpInit ==
  /\ token \in ExpTokens
  /\ now \in 0..MaxNow
  /\ refresh_token = 1 /\ active_chat_id = NoChat
  /\ loading = TRUE /\ chatId = NoChat /\ initialMessages = <<>> /\ sessions = <<>>
  /\ route = "dashboard" /\ mounted = TRUE /\ reloadPending = FALSE
  /\ ticks = 0 /\ issued = 1
  /\ pc = "eval" /\ tk = NoToken /\ rtSent = NoRefresh /\ acid = NoChat
  /\ upc = "idle" /\ utk = NoToken /\ usel = NoChat /\ uacid = NoChat
  /\ timerReqs = {}
  /\ ev = Ev("load", "none", "none")

\* Lines 64-74 applied to the stored token at the current time.
ExpEvaluate ==
  /\ pc = "eval"
  /\ pc' = "evaluated"
  /\ ev' = Ev("isTokenExpiringSoon", BoolStr(isTokenExpiringSoon(token, now)), "none")
  /\ UNCHANGED <<storeVars, reactVars, pageVars, clockVars, tk, rtSent, acid, userVars,
                 timerReqs>>

ExpNext == ExpEvaluate
SpecExp == ExpInit /\ [][ExpNext]_vars

\* ================================================================ claims

BothStored == token # NoToken /\ refresh_token # NoRefresh
StoreEmpty == token = NoToken /\ refresh_token = NoRefresh /\ active_chat_id = NoChat

\* C1: started from a paired store, the access token and the refresh token are
\* in every reachable state both stored or both absent.
C1_TokensPaired == token = NoToken <=> refresh_token = NoRefresh

\* A refreshed pair is in the store while another refresh is still in flight.
C1_Witness ==
  /\ token.id = 2 /\ refresh_token = 2
  /\ \E q \in timerReqs : q.st = "flight"

\* C2: a step of refreshTokens that fails (no refresh token stored, or a
\* rejected response) changes nothing of the store, so hasValidTokens keeps its
\* value; one that succeeds replaces both tokens by the response's pair.
C2_RefreshAllOrNothing ==
  [][/\ (ev'.op = "refreshTokens" /\ ev'.res = "throws") \/ ev'.res = "no_refresh_token"
        => UNCHANGED storeVars /\ hasValidTokens' = hasValidTokens
     /\ (ev'.op = "refreshTokens" /\ ev'.res = "ok")
        => /\ token' # NoToken /\ refresh_token' # NoRefresh
           /\ token' # token /\ refresh_token' # refresh_token
           /\ token'.id = refresh_token'
           /\ UNCHANGED active_chat_id]_vars

\* refreshTokens has just failed and the pair it found is still stored.
C2_Witness ==
  /\ ev = Ev("refreshTokens", "throws", "none")
  /\ BothStored /\ active_chat_id # NoChat

\* C3: the step after a failed refreshTokens is its caller's catch, which
\* leaves access token, refresh token and chat id absent; getValidToken then
\* returns null.
C3_FailureClearsStore ==
  [][(ev.op = "refreshTokens" /\ ev.res = "throws") \/ ev.res = "no_refresh_token"
       => /\ StoreEmpty'
          /\ ev'.res = "refresh_failed"
          /\ pc = "rt_fail" => (pc' = "gvt_done" /\ tk' = NoToken)]_vars

\* getValidToken has returned null after its refresh failed.
C3_Witness ==
  /\ ev = Ev("getValidToken", "refresh_failed", "none")
  /\ pc = "gvt_done" /\ tk = NoToken /\ StoreEmpty

\* C4: for every decodable token with an expiry claim, isTokenExpiringSoon is
\* true exactly when exp - now < 300.
C4_ExpiringIffBelowThreshold ==
  (ev.op = "isTokenExpiringSoon" /\ token.kind = "exp")
    => (ev.res = "true" <=> token.exp - now < 300)

\* "Expiring soon", as the claim means it.
ExpiringSoon(t, currentTime) == t.kind = "exp" /\ t.exp - currentTime < 300

\* C5: getValidToken issues a refresh request only when both tokens are stored
\* and the access token is expiring soon; in every other case it issues no
\* request, leaves the store unchanged and returns null (a token is missing) or
\* the stored access token (not expiring soon).
C5_GetValidTokenFastPath ==
  [][(pc = "mount" /\ ev'.op = "getValidToken")
       => /\ ev'.net = "refresh" => (BothStored /\ ExpiringSoon(token, now))
          /\ ~(BothStored /\ ExpiringSoon(token, now))
               => /\ ev'.net = "none"
                  /\ UNCHANGED storeVars
                  /\ pc' = "gvt_done"
                  /\ tk' = IF BothStored THEN token ELSE NoToken]_vars

\* getValidToken has returned a stored token that does not decode, untouched.
C5_Witness ==
  /\ ev = Ev("getValidToken", "fast_path", "none")
  /\ pc = "gvt_done" /\ tk = token /\ tk.kind = "bad"

\* C6: when getValidToken returns after a refresh that was answered with a
\* complete pair, its result is the stored access token, the stored refresh
\* token is the one issued with it, and the refresh token it sent is gone.
C6_RefreshedPairCommitted ==
  (pc = "gvt_done" /\ ev = Ev("getValidToken", "refreshed", "none"))
    => /\ tk # NoToken /\ tk = token
       /\ refresh_token = tk.id
       /\ refresh_token # rtSent

\* getValidToken has returned the access token of a refresh response.
C6_Witness ==
  /\ pc = "gvt_done" /\ ev = Ev("getValidToken", "refreshed", "none")
  /\ rtSent = 1 /\ token.id > 1

\* C7: with a chat id persisted, a call of getActiveChatId returns that id,
\* issues no request and leaves the persisted id as it is.
C7_CacheHitIdempotent ==
  [][(pc = "sess_done" /\ active_chat_id # NoChat)
       => /\ pc' = "gac_done"
          /\ acid' = active_chat_id
          /\ ev'.net = "none"
          /\ UNCHANGED storeVars]_vars

\* getActiveChatId has returned the persisted id.
C7_Witness ==
  /\ ev = Ev("getActiveChatId", "hit", "none")
  /\ pc = "gac_done" /\ acid = active_chat_id /\ acid \in ChatIds

\* C8: after an allocation, getActiveChatId has either returned a backend
\* identifier that is also the persisted one, or null with nothing persisted.
AllocationOutcome(returned) ==
  \/ returned \in ChatIds /\ active_chat_id = returned
  \/ returned = NoChat /\ active_chat_id = NoChat

C8_AllocationNoPartialState ==
  (ev.op = "getActiveChatId" /\ ev.res \in {"ok"} \cup FailKinds)
    => /\ pc = "gac_done" => AllocationOutcome(acid)
       /\ upc = "new_gac_done" => AllocationOutcome(uacid)

\* C9: handleSelectChat called with the current chat id issues no request and
\* changes neither the store nor the React state.
C9_SelectCurrentIsNoOp ==
  [][(Rendered /\ chatId # NoChat /\ ev'.op = "handleSelectChat" /\ ev'.res = chatId)
       => /\ ev'.net = "none"
          /\ UNCHANGED <<storeVars, reactVars, pageVars, userVars>>]_vars

\* The current chat was selected with a token stored, and nothing moved.
C9_Witness ==
  /\ ev.op = "handleSelectChat" /\ ev.res = chatId /\ ev.net = "none"
  /\ token # NoToken /\ ~loading /\ upc = "idle"

\* C10: a non-success answer to a history fetch removes the persisted chat id
\* and triggers a reload, and leaves both tokens as they are.
C10_HistoryRejectedResets ==
  [][(ev'.op = "fetchChatHistory" /\ ev'.res = "http_error")
       => /\ active_chat_id' = NoChat
          /\ reloadPending'
          /\ UNCHANGED <<token, refresh_token>>]_vars

\* The history fetch of handleSelectChat was rejected; the tokens are still there.
C10_Witness ==
  /\ ev = Ev("fetchChatHistory", "http_error", "none")
  /\ upc = "sel_hist_done" /\ reloadPending
  /\ active_chat_id = NoChat /\ BothStored

\* C11: a history fetch that fails at the transport level drops the persisted
\* chat id and triggers a reload, like a non-success response.
C11_TransportFailureResets ==
  ev = Ev("fetchChatHistory", "net_error", "none")
    => (active_chat_id = NoChat /\ reloadPending)

\* C12: after every failed session-list fetch, during initialization or during
\* createNewChat, the session list handed to the UI is empty.
C12_FailedSessionsEmpty ==
  (ev.op = "fetchChatSessions" /\ ev.res \in FailKinds) => sessions = <<>>

\* C13: initialize obtains the token first; without one it navigates away with
\* no further request; with one it issues the session-list fetch, after its
\* completion resolves the chat id, after that fetches the history, and shows
\* the assistant with a chat id only after the history fetch has completed.
C13_InitOrder ==
  [][/\ (pc = "gvt_done" /\ tk = NoToken)
          => (pc' = "done" /\ route' = "/" /\ ev'.net = "none")
     /\ (pc = "gvt_done" /\ tk # NoToken)
          => (pc' = "sess_wait" /\ ev'.net = "sessions")
     /\ (pc' # pc /\ pc' = "sess_wait") => pc = "gvt_done"
     /\ (pc' # pc /\ pc' = "sess_done") => pc = "sess_wait"
     /\ (pc' # pc /\ pc' = "chat_wait") => (pc = "sess_done" /\ ev'.net = "alloc")
     /\ (pc' # pc /\ pc' = "gac_done") => pc \in {"sess_done", "chat_wait"}
     /\ (pc' # pc /\ pc' = "hist_wait")
          => (pc = "gac_done" /\ Truthy(acid) /\ ev'.net = "history")
     /\ (pc' # pc /\ pc' = "hist_done") => pc = "hist_wait"
     /\ (pc' # pc /\ pc' = "done" /\ ~loading' /\ chatId' # NoChat) => pc = "hist_done"
     /\ (pc \in {"mount", "rt_wait", "rt_ok", "rt_fail", "gvt_done", "sess_wait",
                 "sess_done", "chat_wait", "gac_done", "hist_wait", "hist_done"})
          => (loading /\ upc = "idle")]_vars

\* initialize has finished after the history fetch: the dashboard is Ready.
C13_Witness ==
  /\ ev = Ev("initialize", "finished", "none")
  /\ Ready /\ chatId = active_chat_id /\ sessions # <<>> /\ initialMessages # <<>>

\* C14: a timer tick that finds a stored access token expiring soon starts a
\* refresh, a tick that finds none or one not expiring soon does nothing, and a
\* failed timer refresh leaves the store empty and the route at "/".
C14_TimerRefreshes ==
  /\ ev = Ev("refreshInterval", "idle", "none")
       => ~(token # NoToken /\ ExpiringSoon(token, now))
  /\ ev = Ev("refreshInterval", "refreshing", "refresh")
       => (token # NoToken /\ ExpiringSoon(token, now))
  /\ ev = Ev("refreshInterval", "refresh_failed", "none")
       => (StoreEmpty /\ route = "/")

C16_NoOrphanedChatId ==
  (token = NoToken /\ refresh_token = NoRefresh) => active_chat_id = NoChat

\* The refresh requests in flight that carry the refresh token rt.
InFlightWith(rt) == {q \in timerReqs : q.st = "flight" /\ q.rt = rt}

\* C17: the refresh path has no mutual exclusion: a timer tick that finds the
\* access token expiring soon sends a refresh request with the stored refresh
\* token whatever is already in flight, so two requests with the same refresh
\* token can be pending together.
C17_NoMutualExclusion ==
  [][(/\ ev'.op = "refreshInterval" /\ ticks' = ticks + 1
      /\ token # NoToken /\ token.exp # 0 /\ ExpiringSoon(token, now')
      /\ refresh_token # NoRefresh)
       => /\ InFlightWith(refresh_token)' =
               InFlightWith(refresh_token) \cup
                 {[n |-> ticks', rt |-> refresh_token, st |-> "flight"]}
          /\ Cardinality(InFlightWith(refresh_token)') =
               Cardinality(InFlightWith(refresh_token)) + 1
          /\ UNCHANGED <<pc, rtSent>>]_vars

\* The refresh of getValidToken and those of two successive timer ticks are in
\* flight together, all with the same refresh token.
C17_Witness ==
  /\ pc = "rt_wait" /\ rtSent # NoRefresh
  /\ Cardinality(InFlightWith(rtSent)) = 2

\* C18: once the store is empty and the route is "/", the store stays empty.
C18_UnauthenticatedTerminal ==
  [][(route = "/" /\ StoreEmpty) => StoreEmpty']_vars

\* C19: whenever the dashboard is Ready, the in-memory chat id is the persisted
\* active chat id.
C19_ReadyChatIdPersisted == Ready => chatId = active_chat_id

\* ------------------------------------------------------------- liveness
\* Every request is answered and every queued continuation runs.
Progress ==
  \/ InitRefreshResponse \/ GetValidTokenReturn \/ GetValidTokenCatch \/ InitAfterToken
  \/ InitSessionsResponse \/ InitGetActiveChatId \/ InitChatIdResponse \/ InitAfterChatId
  \/ InitHistoryResponse \/ InitFinally
  \/ TimerRefreshResponse \/ TimerCatch
  \/ SelectHistoryResponse \/ SelectFinish
  \/ NewChatIdResponse \/ NewChatAfterChatId \/ NewChatSessionsResponse \/ NewChatFinish

\* The mount effect runs, too.
SpecLive == Init /\ [][Next]_vars /\ WF_vars(GetValidToken) /\ WF_vars(Progress)

\* C20: whenever loading is true, eventually loading is false, the route is
\* "/", or a page reload has been triggered.
C20_LoadingEnds == loading ~> (~loading \/ route = "/" \/ reloadPending)

\* createNewChat has set loading back to false after a failed allocation.
C20_Witness ==
  /\ ev = Ev("handleCreateNewChat", "no_chat_id", "none")
  /\ ~loading /\ route = "dashboard" /\ ~reloadPending

====
